---- MODULE Spec2Model ----
(***************************************************************************)
(* Model of src/main.rs: submit_transaction (nonce extraction, signature   *)
(* conversion, manifest decompilation, one blocking HTTP POST, receipt      *)
(* deserialization) and the Receipt address accessors.                      *)
(*                                                                          *)
(* Strings are sequences of character tokens, so that formatting, hex       *)
(* rendering, hex parsing and concatenation are computed, not assumed.      *)
(***************************************************************************)
EXTENDS Integers, Sequences, FiniteSets, TLC

(* ------------------------------ bounds --------------------------------- *)
MaxInstr == 3
MaxSigs == 2
AddressLength == 2

(* ------------------------- generic helpers ----------------------------- *)
SeqsUpTo(S, n) == UNION {[1..k -> S] : k \in 0..n}

(* ------------------------------ inputs --------------------------------- *)
NonceValues == {7, 42}

NonceInstr(v) == [tag |-> "Nonce", nonce |-> v]

Instructions == {NonceInstr(v) : v \in NonceValues} \cup {[tag |-> "PublishPackage"]}

\* (public key bytes, signature bytes)
KeyPairs == { << <<2, 171>>, <<255, 0>> >>, << <<3, 16>>, <<10>> >> }

Transactions ==
    [instructions : SeqsUpTo(Instructions, MaxInstr),
     signatures : SeqsUpTo(KeyPairs, MaxSigs)]

DecompileErrors == {"InvalidAddress", "UnrecognizedInstruction"}

DecompileResults ==
    {[ok |-> TRUE, manifest |-> <<"manifest">>, err |-> ""]}
    \cup {[ok |-> FALSE, manifest |-> <<>>, err |-> e] : e \in DecompileErrors}

(* --------------------------- to_string (hex) --------------------------- *)
HexDigits == <<"0", "1", "2", "3", "4", "5", "6", "7",
               "8", "9", "a", "b", "c", "d", "e", "f">>

HexOfByte(b) == <<HexDigits[(b \div 16) + 1], HexDigits[(b % 16) + 1]>>

RECURSIVE to_string(_)
to_string(bytes) ==
    IF bytes = <<>> THEN <<>> ELSE HexOfByte(Head(bytes)) \o to_string(Tail(bytes))

(* --------------------------- nonce extraction -------------------------- *)
IsNonce(x) == x.tag = "Nonce"

nonce_instructions(tx) == SelectSeq(tx.instructions, IsNonce)

Err(kind, payload) == [ok |-> FALSE, kind |-> kind, payload |-> payload]
Ok(value) == [ok |-> TRUE, kind |-> "Ok", payload |-> value]

\* slip: "at least one" taken for "exactly one"
NonceResultAtLeastOne(ni) ==
    IF Len(ni) = 0 THEN Err("NoNonceFound", <<>>) ELSE Ok(ni[1].nonce)

NonceResult(ni) ==
    IF Len(ni) = 0 THEN Err("NoNonceFound", <<>>)
    ELSE IF Len(ni) = 1 THEN Ok(ni[1].nonce)
    ELSE Err("MultipleNonceFound", <<>>)

(* ----------------------- signature conversion -------------------------- *)
SignatureOf(x) == [public_key |-> to_string(x[1]), signature |-> to_string(x[2])]

\* slip: the list is built back to front
RECURSIVE MapSignaturesReversed(_)
MapSignaturesReversed(pairs) ==
    IF pairs = <<>> THEN <<>>
    ELSE Append(MapSignaturesReversed(Tail(pairs)), SignatureOf(Head(pairs)))

RECURSIVE MapSignatures(_)
MapSignatures(pairs) ==
    IF pairs = <<>> THEN <<>>
    ELSE <<SignatureOf(Head(pairs))>> \o MapSignatures(Tail(pairs))

(* ------------------- error conversions (From impls) -------------------- *)
\* slip: the decompiler's error value is dropped
FromDecompileErrorLossy(error) == Err("DecompileError", "")

FromDecompileError(error) == Err("DecompileError", error)

FromReqwestError(error) == Err("HttpRequestError", error)

(* ------------------------------ JSON text ------------------------------ *)
\* A JSON document is an ordered list of members <<key, value>>; a value is a
\* string, a number or an array of strings.
JStr(s) == [t |-> "str", s |-> s, a |-> <<>>]
JNum(n) == [t |-> "num", s |-> <<n>>, a |-> <<>>]
JArr(a) == [t |-> "arr", s |-> <<>>, a |-> a]

Quoted(s) == <<"\"">> \o s \o <<"\"">>

RECURSIVE RenderItems(_)
RenderItems(items) ==
    IF items = <<>> THEN <<>>
    ELSE IF Len(items) = 1 THEN Head(items)
    ELSE Head(items) \o <<",">> \o RenderItems(Tail(items))

RenderValue(v) ==
    IF v.t = "str" THEN Quoted(v.s)
    ELSE IF v.t = "num" THEN v.s
    ELSE <<"[">> \o RenderItems([i \in 1..Len(v.a) |-> Quoted(v.a[i])]) \o <<"]">>

RenderMember(m) == Quoted(<<m[1]>>) \o <<":">> \o RenderValue(m[2])

Render(doc) ==
    <<"{">> \o RenderItems([i \in 1..Len(doc) |-> RenderMember(doc[i])]) \o <<"}">>

(* ---------------------------- address strings -------------------------- *)
Addr2 == <<"0", "2", "a", "b">>
Addr3 == <<"0", "3", "f", "f", "1", "0">>
Pkg1 == <<"p", "k", "g", "_", "1">>

ReceiptDoc(status, pk, co, re) ==
    << <<"transaction_hash", JStr(<<"a", "b", "c">>)>>,
       <<"status", JStr(status)>>,
       <<"outputs", JArr(<<>>)>>,
       <<"logs", JArr(<<>>)>>,
       <<"new_packages", JArr(pk)>>,
       <<"new_components", JArr(co)>>,
       <<"new_resources", JArr(re)>> >>

AddressLists ==
    { <<<<Addr2>>, <<>>, <<>>>>,
      <<<<Addr3>>, <<Addr3>>, <<Addr3, Addr3>>>>,
      <<<<Addr2, Addr2>>, <<Addr2>>, <<Addr2, Addr3>>>>,
      <<<<Addr2, Pkg1>>, <<Pkg1>>, <<Addr2, Addr2>>>>,
      <<<<Pkg1>>, <<Addr2, Addr2>>, <<Pkg1, Addr2>>>> }

ReceiptDocs ==
    { ReceiptDoc(<<"Succeeded">>, l[1], l[2], l[3]) : l \in AddressLists }
    \cup { ReceiptDoc(<<"Failed">>, <<>>, <<>>, <<>>) }

\* well-formed JSON that is not a Receipt: a field missing, a field of the
\* wrong type, an error object
MismatchDocs ==
    { SubSeq(ReceiptDoc(<<"Succeeded">>, <<Addr2>>, <<>>, <<>>), 1, 6),
      << <<"transaction_hash", JStr(<<"a", "b", "c">>)>>,
         <<"status", JNum("1")>>,
         <<"outputs", JArr(<<>>)>>,
         <<"logs", JArr(<<>>)>>,
         <<"new_packages", JArr(<<>>)>>,
         <<"new_components", JArr(<<>>)>>,
         <<"new_resources", JArr(<<>>)>> >>,
      << <<"error", JStr(<<"b", "a", "d">>)>> >> }

\* a Receipt with one more member, which the derived Deserialize ignores
ExtraDocs ==
    { ReceiptDoc(<<"Succeeded">>, <<Addr2>>, <<>>, <<>>) \o << <<"error", JStr(<<"x">>)>> >> }

JsonDocs == ReceiptDocs \cup MismatchDocs \cup ExtraDocs

NonJsonTexts == { <<>>, <<"<", "h", "t", "m", "l", ">">>, <<"{", "\"">> }

ResponseTexts == { Render(d) : d \in JsonDocs } \cup NonJsonTexts

(* ------------------- serde_json::from_str::<Receipt> ------------------- *)
IsJson(text) == \E d \in JsonDocs : Render(d) = text

ParseJson(text) == CHOOSE d \in JsonDocs : Render(d) = text

StringFields == {"transaction_hash", "status"}
ListFields == {"outputs", "logs", "new_packages", "new_components", "new_resources"}

Members(doc, key) == {i \in 1..Len(doc) : doc[i][1] = key}

\* every field of the struct is present once with the type the struct
\* declares; members the struct does not name are skipped
MatchesReceipt(doc) ==
    /\ \A k \in StringFields :
          /\ Cardinality(Members(doc, k)) = 1
          /\ \A i \in Members(doc, k) : doc[i][2].t = "str"
    /\ \A k \in ListFields :
          /\ Cardinality(Members(doc, k)) = 1
          /\ \A i \in Members(doc, k) : doc[i][2].t = "arr"

Field(doc, key) == doc[CHOOSE i \in Members(doc, key) : TRUE][2]

ReceiptOf(doc) ==
    [transaction_hash |-> Field(doc, "transaction_hash").s,
     status |-> Field(doc, "status").s,
     outputs |-> Field(doc, "outputs").a,
     logs |-> Field(doc, "logs").a,
     new_packages |-> Field(doc, "new_packages").a,
     new_components |-> Field(doc, "new_components").a,
     new_resources |-> Field(doc, "new_resources").a]

from_str(text) ==
    IF IsJson(text) /\ MatchesReceipt(ParseJson(text))
    THEN Ok(ReceiptOf(ParseJson(text)))
    ELSE Err("serde", <<>>)

ErrorPrefix == <<"Can not deserialize string: ">>

\* slip: the response text is left out of the message
JsonErrorPayloadNoText(response_body) == ErrorPrefix

JsonErrorPayload(response_body) == ErrorPrefix \o response_body

DeserializeResult(response_body) ==
    IF from_str(response_body).ok
    THEN Ok(from_str(response_body).payload)
    ELSE Err("JsonDeserializationError", JsonErrorPayload(response_body))

(* ------------------------ Address::from_str ---------------------------- *)
IsHexDigit(c) == \E i \in 1..Len(HexDigits) : HexDigits[i] = c

HexValue(c) == (CHOOSE i \in 1..Len(HexDigits) : HexDigits[i] = c) - 1

HexDecodable(s) == Len(s) % 2 = 0 /\ \A i \in 1..Len(s) : IsHexDigit(s[i])

HexDecode(s) == [i \in 1..(Len(s) \div 2) |-> 16 * HexValue(s[2 * i - 1]) + HexValue(s[2 * i])]

address_from_str(kind, s) ==
    IF HexDecodable(s) /\ Len(HexDecode(s)) = AddressLength
    THEN Ok([kind |-> kind, bytes |-> HexDecode(s)])
    ELSE Err("ParseAddressError", s)

\* slip: filter_map(|x| from_str(x).ok()), which skips what does not parse
RECURSIVE MapUnwrapSkip(_, _, _)
MapUnwrapSkip(kind, strings, acc) ==
    IF strings = <<>> THEN [panicked |-> FALSE, value |-> acc]
    ELSE IF address_from_str(kind, Head(strings)).ok
         THEN MapUnwrapSkip(kind, Tail(strings),
                            Append(acc, address_from_str(kind, Head(strings)).payload))
         ELSE MapUnwrapSkip(kind, Tail(strings), acc)

\* .iter().map(|x| from_str(x).unwrap()).collect(): the first string that
\* does not parse panics and the list built so far is dropped
RECURSIVE MapUnwrap(_, _, _)
MapUnwrap(kind, strings, acc) ==
    IF strings = <<>> THEN [panicked |-> FALSE, value |-> acc]
    ELSE IF address_from_str(kind, Head(strings)).ok
         THEN MapUnwrap(kind, Tail(strings),
                        Append(acc, address_from_str(kind, Head(strings)).payload))
         ELSE [panicked |-> TRUE, value |-> <<>>]

new_packages(receipt) == MapUnwrap("Package", receipt.new_packages, <<>>)
new_components(receipt) == MapUnwrap("Component", receipt.new_components, <<>>)
new_resources(receipt) == MapUnwrap("Resource", receipt.new_resources, <<>>)

(* ------------------------------ network -------------------------------- *)
Url == <<"https://pte01.radixdlt.com/transaction">>

TransportErrors == {"connect", "timeout"}
BodyErrors == {"body"}
Statuses == {200, 500}

\* what send() can return: a transport error, or a response (status line and
\* headers received) whose body is still to be read and may fail to arrive
Responses ==
    [status : Statuses,
     body : {Ok(t) : t \in ResponseTexts} \cup {Err("reqwest", e) : e \in BodyErrors}]

SendOutcomes == {Err("reqwest", e) : e \in TransportErrors} \cup {Ok(r) : r \in Responses}

(* ------------------------------- state --------------------------------- *)
\* Locals of submit_transaction not yet assigned, and the Receipt before it
\* exists, are the empty sequence; once assigned they are <<value>>.
\*   transaction       the &SignedTransaction argument (line 38), never written
\*   decompileResult   what utils::decompile returns for it (line 78)
\*   pc                the statement submit_transaction is at; "returned"
\*                     after it returned, "panicked" after an unwrap panicked
\*   nonce             line 66          signatures        lines 68-74
\*   transaction_body  lines 77-81     response          lines 84-87
\*   response_body     line 89         result            the value returned
\*   posted            the requests put on the wire by send() (line 87)
\*   receipt           the Receipt the caller holds once Ok was returned
\*   called            the accessor calls made on it (lines 129-150), each
\*                     with its outcome
\* The panic of line 59 is unreachable: the filter of lines 43-48 keeps Nonce
\* instructions only, so nonce_instructions[0] is always one.
VARIABLES transaction, decompileResult, pc, nonce, signatures, transaction_body,
          posted, response, response_body, result, receipt, called

vars == <<transaction, decompileResult, pc, nonce, signatures, transaction_body,
          posted, response, response_body, result, receipt, called>>

\* utils::decompile is opaque: its value on the transaction at hand
decompile(tx) == decompileResult

Init ==
    /\ transaction \in Transactions
    /\ decompileResult \in DecompileResults
    /\ pc = "extract_nonce"
    /\ nonce = <<>>
    /\ signatures = <<>>
    /\ transaction_body = <<>>
    /\ posted = <<>>
    /\ response = <<>>
    /\ response_body = <<>>
    /\ result = <<>>
    /\ receipt = <<>>
    /\ called = {}

Return(r) ==
    /\ result' = <<r>>
    /\ receipt' = IF r.ok THEN <<r.payload>> ELSE <<>>
    /\ pc' = "returned"

\* lines 40-66
ExtractNonce ==
    /\ pc = "extract_nonce"
    /\ LET r == NonceResult(nonce_instructions(transaction)) IN
         IF r.ok
         THEN /\ nonce' = <<[value |-> r.payload]>>
              /\ pc' = "convert_signatures"
              /\ UNCHANGED <<result, receipt>>
         ELSE /\ Return(r)
              /\ UNCHANGED nonce
    /\ UNCHANGED <<transaction, decompileResult, signatures, transaction_body,
                   posted, response, response_body, called>>

\* lines 68-74
ConvertSignatures ==
    /\ pc = "convert_signatures"
    /\ signatures' = <<MapSignatures(transaction.signatures)>>
    /\ pc' = "build_body"
    /\ UNCHANGED <<transaction, decompileResult, nonce, transaction_body,
                   posted, response, response_body, result, receipt, called>>

\* slip: the body is built from Nonce's default instead of the extracted one
BuildBodyDefaultNonce ==
    /\ pc = "build_body"
    /\ LET m == decompile(transaction) IN
         IF m.ok
         THEN /\ transaction_body' = <<[manifest |-> m.manifest,
                                        nonce |-> [value |-> 0],
                                        signatures |-> signatures[1]]>>
              /\ pc' = "send"
              /\ UNCHANGED <<result, receipt>>
         ELSE /\ Return(FromDecompileError(m.err))
              /\ UNCHANGED transaction_body
    /\ UNCHANGED <<transaction, decompileResult, nonce, signatures,
                   posted, response, response_body, called>>

\* slip: unwrap_or_default() on the manifest, so the request goes out anyway
BuildBodyAlwaysSend ==
    /\ pc = "build_body"
    /\ LET m == decompile(transaction) IN
         /\ transaction_body' = <<[manifest |-> m.manifest,
                                   nonce |-> nonce[1],
                                   signatures |-> signatures[1]]>>
         /\ pc' = "send"
    /\ UNCHANGED <<transaction, decompileResult, nonce, signatures, result, receipt,
                   posted, response, response_body, called>>

\* lines 77-81
BuildBody ==
    /\ pc = "build_body"
    /\ LET m == decompile(transaction) IN
         IF m.ok
         THEN /\ transaction_body' = <<[manifest |-> m.manifest,
                                        nonce |-> nonce[1],
                                        signatures |-> signatures[1]]>>
              /\ pc' = "send"
              /\ UNCHANGED <<result, receipt>>
         ELSE /\ Return(FromDecompileError(m.err))
              /\ UNCHANGED transaction_body
    /\ UNCHANGED <<transaction, decompileResult, nonce, signatures,
                   posted, response, response_body, called>>

\* slip: a failed send is tried once more
SendRetry ==
    /\ pc = "send"
    /\ LET req == [method |-> "POST", url |-> Url, json |-> transaction_body[1]] IN
       \E o \in SendOutcomes :
         IF o.ok
         THEN /\ posted' = Append(posted, req)
              /\ response' = <<o.payload>>
              /\ pc' = "read_text"
              /\ UNCHANGED <<result, receipt>>
         ELSE /\ posted' = Append(Append(posted, req), req)
              /\ Return(FromReqwestError(o.payload))
              /\ UNCHANGED response
    /\ UNCHANGED <<transaction, decompileResult, nonce, signatures,
                   transaction_body, response_body, called>>

\* lines 84-87
Send ==
    /\ pc = "send"
    /\ posted' = Append(posted, [method |-> "POST", url |-> Url,
                                 json |-> transaction_body[1]])
    /\ \E o \in SendOutcomes :
         IF o.ok
         THEN /\ response' = <<o.payload>>
              /\ pc' = "read_text"
              /\ UNCHANGED <<result, receipt>>
         ELSE /\ Return(FromReqwestError(o.payload))
              /\ UNCHANGED response
    /\ UNCHANGED <<transaction, decompileResult, nonce, signatures,
                   transaction_body, response_body, called>>

\* line 89: response.text().unwrap()
ReadText ==
    /\ pc = "read_text"
    /\ IF response[1].body.ok
       THEN /\ response_body' = <<response[1].body.payload>>
            /\ pc' = "deserialize"
       ELSE /\ pc' = "panicked"
            /\ UNCHANGED response_body
    /\ UNCHANGED <<transaction, decompileResult, nonce, signatures, transaction_body,
                   posted, response, result, receipt, called>>

\* slip: error_for_status() before the body is parsed
DeserializeCheckStatus ==
    /\ pc = "deserialize"
    /\ IF response[1].status >= 400
       THEN Return(FromReqwestError("status"))
       ELSE Return(DeserializeResult(response_body[1]))
    /\ UNCHANGED <<transaction, decompileResult, nonce, signatures, transaction_body,
                   posted, response, response_body, called>>

\* lines 90-94
Deserialize ==
    /\ pc = "deserialize"
    /\ Return(DeserializeResult(response_body[1]))
    /\ UNCHANGED <<transaction, decompileResult, nonce, signatures, transaction_body,
                   posted, response, response_body, called>>

\* lines 129-150: an accessor called on the returned Receipt
Access(fn, out) ==
    /\ pc = "returned"
    /\ receipt # <<>>
    /\ called' = called \cup {[fn |-> fn, panicked |-> out.panicked, value |-> out.value]}
    /\ pc' = IF out.panicked THEN "panicked" ELSE pc
    /\ UNCHANGED <<transaction, decompileResult, nonce, signatures, transaction_body,
                   posted, response, response_body, result, receipt>>

CallNewPackages == receipt # <<>> /\ Access("new_packages", new_packages(receipt[1]))

CallNewComponents == receipt # <<>> /\ Access("new_components", new_components(receipt[1]))

CallNewResources == receipt # <<>> /\ Access("new_resources", new_resources(receipt[1]))

Next ==
    \/ ExtractNonce
    \/ ConvertSignatures
    \/ BuildBody
    \/ Send
    \/ ReadText
    \/ Deserialize
    \/ CallNewPackages
    \/ CallNewComponents
    \/ CallNewResources

Spec == Init /\ [][Next]_vars

(* ============================== properties ============================= *)
NonceIndices == {i \in 1..Len(transaction.instructions) :
                    transaction.instructions[i].tag = "Nonce"}

NonceCount == Cardinality(NonceIndices)

Finished == pc \in {"returned", "panicked"}

Returned(r) == pc = "returned" /\ result = <<r>>

\* C1: a transaction with no Nonce instruction ends in NoNonceFound and one
\* with two or more ends in MultipleNonceFound, wherever the Nonce
\* instructions sit in the list.
C1_NonceCountDecidesError ==
    pc # "extract_nonce" =>
        /\ NonceCount = 0 => Returned(Err("NoNonceFound", <<>>))
        /\ NonceCount >= 2 => Returned(Err("MultipleNonceFound", <<>>))

C1_Witness ==
    /\ Returned(Err("MultipleNonceFound", <<>>))
    /\ Len(transaction.instructions) = MaxInstr
    /\ transaction.instructions[1].tag # "Nonce"
    /\ NonceCount = 2

\* C2: with exactly one Nonce instruction, of value V at any position, nonce
\* extraction succeeds with V, and the request body that is assembled and
\* posted carries nonce.value = V.
C2_SingleNonceCarried ==
    NonceCount = 1 =>
        \A i \in NonceIndices :
            LET V == transaction.instructions[i].nonce IN
            /\ pc # "extract_nonce" => nonce = <<[value |-> V]>>
            /\ pc \notin {"extract_nonce", "convert_signatures", "build_body"}
               /\ decompileResult.ok
                  => /\ transaction_body # <<>>
                     /\ transaction_body[1].nonce.value = V
            /\ \A k \in 1..Len(posted) : posted[k].json.nonce.value = V

C2_Witness ==
    /\ posted # <<>>
    /\ NonceIndices = {MaxInstr}
    /\ transaction.instructions[MaxInstr].nonce = 42
    /\ Len(transaction.signatures) = 2
    /\ posted[1].json.nonce.value = 42

Malformed(text) == ~from_str(text).ok

\* C3 as stated: a response body that is not JSON or not a Receipt gives
\* JsonDeserializationError whose payload equals the raw response text.
C3_PayloadIsRawText ==
    (pc = "returned" /\ response_body # <<>> /\ Malformed(response_body[1]))
        => result = <<Err("JsonDeserializationError", response_body[1])>>

\* C3 amended: a response body that is not JSON or not a Receipt gives
\* JsonDeserializationError whose payload is the fixed text
\* "Can not deserialize string: " followed by the exact raw response text.
C3_PayloadIsPrefixedRawText ==
    (pc = "returned" /\ response_body # <<>> /\ Malformed(response_body[1]))
        => /\ result # <<>>
           /\ result[1].kind = "JsonDeserializationError"
           /\ Len(result[1].payload) = Len(ErrorPrefix) + Len(response_body[1])
           /\ SubSeq(result[1].payload, 1, Len(ErrorPrefix)) = ErrorPrefix
           /\ SubSeq(result[1].payload, Len(ErrorPrefix) + 1, Len(result[1].payload))
                 = response_body[1]

C3_Witness ==
    /\ pc = "returned"
    /\ response_body # <<>>
    /\ IsJson(response_body[1])
    /\ Malformed(response_body[1])
    /\ result[1].kind = "JsonDeserializationError"

\* C4 as stated: every invocation, whatever its outcome, has made exactly
\* one POST when it ends.
C4_ExactlyOnePostAlways == Finished => Len(posted) = 1

\* C4 amended: an invocation never makes a second POST, every POST goes to
\* the fixed endpoint, and an invocation that has ended has made exactly one
\* POST when nonce extraction and decompilation both succeeded and none
\* otherwise.
C4_OnePostAfterAssembly ==
    /\ Len(posted) <= 1
    /\ \A k \in 1..Len(posted) : posted[k].method = "POST" /\ posted[k].url = Url
    /\ Finished => (Len(posted) = 1 <=> (NonceCount = 1 /\ decompileResult.ok))

C4_Witness ==
    /\ pc = "returned"
    /\ result[1].kind = "HttpRequestError"
    /\ Len(posted) = 1

\* C5: a transport failure, while sending or while reading the response body,
\* comes back as HttpRequestError wrapping the transport error, and
\* submit_transaction does not abort on it.
C5_TransportFailureIsTyped ==
    (response # <<>> /\ ~response[1].body.ok /\ pc # "read_text")
        => Returned(Err("HttpRequestError", response[1].body.payload))

\* C6: the request body has one signature entry per (public key, signature)
\* pair of the transaction, in the same order, and each entry is the hex
\* rendering of that pair's key and signature.
C6_SignaturesInOrder ==
    LET N == Len(transaction.signatures)
        InOrder(sigs) ==
            /\ Len(sigs) = N
            /\ \A i \in 1..N :
                 /\ HexDecodable(sigs[i].public_key)
                 /\ HexDecode(sigs[i].public_key) = transaction.signatures[i][1]
                 /\ HexDecodable(sigs[i].signature)
                 /\ HexDecode(sigs[i].signature) = transaction.signatures[i][2]
    IN /\ signatures # <<>> => InOrder(signatures[1])
       /\ transaction_body # <<>> => InOrder(transaction_body[1].signatures)
       /\ \A k \in 1..Len(posted) : InOrder(posted[k].json.signatures)
       /\ pc \in {"send", "read_text", "deserialize"} => transaction_body # <<>>

C6_Witness ==
    /\ posted # <<>>
    /\ Len(transaction.signatures) = 2
    /\ transaction.signatures[1] # transaction.signatures[2]
    /\ Len(posted[1].json.signatures) = 2

AddressKind(fn) ==
    IF fn = "new_packages" THEN "Package"
    ELSE IF fn = "new_components" THEN "Component" ELSE "Resource"

\* C7: an accessor returns the parses of all the strings of its field, in
\* order, when all of them parse, aborts with no partial result when one does
\* not, and leaves the Receipt as it was returned.
C7_AccessorAllOrNothing ==
    /\ called # {} => receipt = <<result[1].payload>>
    /\ \A c \in called :
         LET strings == receipt[1][c.fn]
             parsed(i) == address_from_str(AddressKind(c.fn), strings[i])
         IN IF \A i \in 1..Len(strings) : parsed(i).ok
            THEN /\ ~c.panicked
                 /\ Len(c.value) = Len(strings)
                 /\ \A i \in 1..Len(strings) : c.value[i] = parsed(i).payload
            ELSE /\ c.panicked
                 /\ c.value = <<>>
                 /\ pc = "panicked"

C7_Witness ==
    /\ \E c \in called : ~c.panicked /\ Len(c.value) = 2
    /\ \E c \in called :
         /\ c.panicked
         /\ Len(receipt[1][c.fn]) = 2
         /\ address_from_str(AddressKind(c.fn), receipt[1][c.fn][1]).ok

\* C8: when the decompiler fails with E on a transaction with exactly one
\* Nonce instruction, the result is DecompileError carrying E.
C8_DecompileErrorCarried ==
    (NonceCount = 1 /\ ~decompileResult.ok
     /\ pc \notin {"extract_nonce", "convert_signatures", "build_body"})
        => Returned([ok |-> FALSE, kind |-> "DecompileError",
                     payload |-> decompileResult.err])

C8_Witness ==
    /\ NonceCount = 1
    /\ Len(transaction.instructions) > 1
    /\ Returned([ok |-> FALSE, kind |-> "DecompileError", payload |-> "InvalidAddress"])

\* C9: a POST is made only after nonce extraction and decompilation have
\* succeeded; a run that ends in NoNonceFound, MultipleNonceFound or
\* DecompileError has made no POST; and a transaction with a wrong nonce
\* count whose instructions do not decompile ends in the nonce error.
C9_ValidationBeforePost ==
    /\ posted # <<>> =>
         /\ NonceCount = 1 /\ nonce # <<>>
         /\ decompileResult.ok /\ transaction_body # <<>>
    /\ (result # <<>>
        /\ result[1].kind \in {"NoNonceFound", "MultipleNonceFound", "DecompileError"})
           => posted = <<>>
    /\ (NonceCount # 1 /\ ~decompileResult.ok /\ pc # "extract_nonce")
           => /\ pc = "returned"
              /\ result[1].kind =
                   IF NonceCount = 0 THEN "NoNonceFound" ELSE "MultipleNonceFound"

C9_Witness ==
    /\ pc = "returned"
    /\ result[1].kind = "MultipleNonceFound"
    /\ ~decompileResult.ok
    /\ posted = <<>>

\* C10: when submit_transaction returns after a response was received, the
\* result is Ok(receipt) if the body text parses as a Receipt and
\* JsonDeserializationError if not, whatever the HTTP status.
C10_BodyDecidesResult ==
    (pc = "returned" /\ response # <<>>)
        => /\ response_body = <<response[1].body.payload>>
           /\ result # <<>>
           /\ result[1].ok <=> from_str(response_body[1]).ok
           /\ result[1].ok => /\ result[1].payload = from_str(response_body[1]).payload
                              /\ receipt = <<result[1].payload>>
           /\ ~result[1].ok => result[1].kind = "JsonDeserializationError"

C10_Witness ==
    /\ pc = "returned"
    /\ response # <<>>
    /\ response[1].status = 500
    /\ result[1].ok

====
